---- MODULE Spec2Model ----
(***************************************************************************)
(* Model of bot.py (Trader Pro JLV): the per-user conversation memory      *)
(* (CTX, _hist, _push, cmd_reset), the anti-spam gate of on_text           *)
(* (LAST_SEEN) and the retrying completion call (chat, wrapped by          *)
(* tenacity's @retry).                                                     *)
(*                                                                         *)
(* Scheduling.  main() builds the application with                         *)
(* concurrent_updates(True): every update runs its handler as its own      *)
(* asyncio task on one event loop.  A task runs alone between two await    *)
(* expressions, so each action below is the code of one handler from one   *)
(* await to the next.                                                      *)
(*                                                                         *)
(* List objects.  chat(messages) receives the list object that _hist       *)
(* returned.  _push appends to that object in place and, on eviction,      *)
(* binds CTX[uid] to a NEW list; cmd_reset binds CTX[uid] to a new list    *)
(* too.  A task inside chat therefore holds `messages` (the content of     *)
(* its list object) and `alias` (TRUE while that object is still the one   *)
(* bound to CTX[uid]): an in-place append reaches every aliased task, a    *)
(* rebinding leaves the old object to the tasks that hold it.              *)
(*                                                                         *)
(* Telegram calls (reply_text, send_action) are taken to succeed; the      *)
(* outcomes of the completion request and of the market-data request are   *)
(* inputs.  Time is in tenths of a second.                                 *)
(***************************************************************************)
EXTENDS Integers, Sequences, FiniteSets, TLC

\* ------------------------------------------------------------------ bounds
\* MAX_TURNS is 10 in bot.py (line 50).  The model runs the same code with a
\* smaller window; every formula is stated in terms of MAX_TURNS.
MAX_TURNS == 1
\* updates handed to handlers in one run of Spec (concurrent tasks)
MaxUpdates == 3
\* updates handed to the handlers in one run of SpecSeq (one task at a time)
MaxSeqUpdates == 5
\* turns pushed in one run of SpecPush beyond the first 1 + 2 * MAX_TURNS
MaxOver == 3
\* updates handed to handlers in one run of SpecLive (concurrent tasks, fair)
MaxLiveUpdates == 2
\* updates handed to handlers in one run of SpecUsers (two users)
MaxUserUpdates == 2

\* The uids of update.effective_user.id, and the handler tasks the event
\* loop can hold at once.
Users == {1, 2}
Tasks == {1, 2}
\* The values time.time() is read at, in tenths of a second: both sides of
\* the 0.6 s interval from 0 (5, 6, 7), and a third interval (12).
Times == {0, 5, 6, 7, 12}

\* ------------------------------------------------------- program constants
\* on_text: (now - LAST_SEEN[uid]) < 0.6, in tenths
MIN_INTERVAL == 6
\* @retry(stop=stop_after_attempt(3))
MAX_ATTEMPTS == 3
\* @retry(wait=wait_exponential(min=1, max=8)), seconds
WAIT_MIN == 1
WAIT_MAX == 8

\* The texts of bot.py, without accents; SYSTEM is cut to its first sentence.
SYSTEM == "Tu es 'Trader Pro JLV', bot Telegram francophone 100% crypto."
HTTP_ERROR == "Erreur cote IA (HTTP)."
UNEXPECTED == "Reponse IA inattendue."
OnTextFailure == "Petit probleme cote IA. Reessaie."
ResetDone == "Memoire effacee."

\* A turn is {"role": ..., "content": ...}.  The model adds msg, which the
\* code does not store: the number, among the user turns pushed for that uid,
\* of the message the turn belongs to (0 for the system turn).
SystemTurn == [role |-> "system", content |-> SYSTEM, msg |-> 0]

VARIABLES
    CTX,        \* uid -> list of turns, defined on the uids that have a list
    LAST_SEEN,  \* uid -> time of the last accepted text message
    now,        \* the latest reading of time.time(), in tenths of a second
    task,       \* handler tasks: position, locals, and what they sent
    left,       \* updates the dispatcher still hands to handlers in this run
    nmsg,       \* uid -> user turns pushed so far for uid (numbers its turns)
    pushed      \* uid -> the turns given to _push since uid's list was new

vars == <<CTX, LAST_SEEN, now, task, left, nmsg, pushed>>

\* ----------------------------------------------------------------- helpers
Put(f, k, v) == [x \in (DOMAIN f) \cup {k} |-> IF x = k THEN v ELSE f[x]]

EmptyMap == [x \in {} |-> 0]

Min(a, b) == IF a < b THEN a ELSE b
Max(a, b) == IF a > b THEN a ELSE b

RECURSIVE Pow2(_)
Pow2(n) == IF n = 0 THEN 1 ELSE 2 * Pow2(n - 1)

\* Variant of the text handling that forgets to strip.
strip_forgotten(s) == s

\* str.strip() on the texts the model uses.
strip(s) ==
    CASE s = " hello "    -> "hello"
      [] s = " hi there " -> "hi there"
      [] s = "  "         -> ""
      [] OTHER            -> s

\* ------------------------------------------------------------- turn store
\* CTX after _hist(uid): the list is created on first use.
hist(ctx, uid) ==
    IF uid \in DOMAIN ctx THEN ctx ELSE Put(ctx, uid, <<SystemTurn>>)

\* The list object h of _push after h.append(...).
appended(ctx, uid, turn) == Append(hist(ctx, uid)[uid], turn)

\* Variants of the eviction with a slip in the slice:
\* h[-(2 * MAX_TURNS + 1):], the system turn is not kept apart
evicted_tail_only(h) == SubSeq(h, Len(h) - 2 * MAX_TURNS, Len(h))
\* [h[0]] + h[1:2 * MAX_TURNS + 1], the oldest turns are kept
evicted_oldest(h) == <<h[1]>> \o SubSeq(h, 2, 2 * MAX_TURNS + 1)

\* [h[0]] + h[3:], the oldest user/assistant pair is dropped together
evicted_pair(h) == <<h[1]>> \o SubSeq(h, 4, Len(h))

\* [h[0]] + h[-(2 * MAX_TURNS):]
evicted(h) == <<h[1]>> \o SubSeq(h, Len(h) - 2 * MAX_TURNS + 1, Len(h))

\* Variant of _push in which all users share one list object: the list it
\* stores for uid is stored for every user that has a conversation.
push_shared(ctx, uid, turn) ==
    LET h == appended(ctx, uid, turn)
        l == IF Len(h) > 1 + 2 * MAX_TURNS THEN evicted(h) ELSE h
    IN  [x \in (DOMAIN ctx) \cup {uid} |-> l]

\* CTX after _push(uid, role, content).
push(ctx, uid, turn) ==
    LET h == appended(ctx, uid, turn)
    IN  Put(ctx, uid, IF Len(h) > 1 + 2 * MAX_TURNS THEN evicted(h) ELSE h)

\* The tasks after _push(uid, ...): a task whose `messages` is the list object
\* bound to CTX[uid] sees the append; on eviction CTX[uid] is rebound and the
\* task keeps the old object.
pushSeen(tk, ctx, uid, turn) ==
    LET h == appended(ctx, uid, turn)
    IN  [t \in Tasks |->
            IF tk[t].alias /\ tk[t].uid = uid
            THEN [tk[t] EXCEPT !.messages = h,
                               !.alias = ~(Len(h) > 1 + 2 * MAX_TURNS)]
            ELSE tk[t]]

\* The tasks after CTX[uid] = [...] in cmd_reset: the old object stays with
\* the tasks that hold it.
rebound(tk, uid) ==
    [t \in Tasks |->
        IF tk[t].alias /\ tk[t].uid = uid
        THEN [tk[t] EXCEPT !.alias = FALSE] ELSE tk[t]]

\* --------------------------------------------------------------- task pool
\* The locals of a handler task (uid, text, messages, the attempt number of
\* the retry wrapper) and its position pc:
\*   echo   on_text awaits reply_text of the echo
\*   typing on_text awaits send_action
\*   fetch  a command awaits its market-data request
\*   post   chat awaits client.post
\*   sleep  the retry wrapper awaits its backoff
\*   done   the handler has returned
\* Beside them a record keeps what the task did, for the properties below:
\* tag (the msg of its user turn), allowed (the gate accepted its message),
\* outcome (what its latest attempt met), waits (the backoffs asked for),
\* result (the text chat returned, or raised / dropped / ignored /
\* fetch_failed), out (the Telegram calls it made).
Idle == [pc |-> "idle", handler |-> "none", uid |-> 0, text |-> "",
         tag |-> 0, attempt |-> 0, messages |-> <<>>, alias |-> FALSE,
         payload |-> <<>>, waits |-> <<>>, outcome |-> "none",
         allowed |-> FALSE,
         result |-> "none", out |-> <<>>]

Free(t) == task[t].pc \in {"idle", "done"}

\* The dispatcher starts the handler of the next update in a free task; the
\* lowest free one is taken (which one is immaterial).
Fresh(t) ==
    /\ Free(t)
    /\ \A s \in Tasks : Free(s) => t <= s
    /\ left > 0

Started(t, h, u) == [Idle EXCEPT !.handler = h, !.uid = u]

\* A finished task keeps what it did and drops its locals.
Finished(r, res, sent) ==
    [r EXCEPT !.pc = "done", !.result = res, !.out = r.out \o sent,
              !.messages = <<>>, !.alias = FALSE, !.payload = <<>>,
              !.text = "", !.tag = 0, !.waits = <<>>]

Init ==
    /\ CTX = EmptyMap
    /\ LAST_SEEN = EmptyMap
    /\ now = 0
    /\ task = [t \in Tasks |-> Idle]
    /\ left = MaxUpdates
    /\ nmsg = [u \in Users |-> 0]
    /\ pushed = [u \in Users |-> <<>>]

\* ------------------------------------------------------------ rate limiter
\* Variants of the gate: `<=` for `<`, and a shorter interval.
spam_inclusive(ls, uid, t) == uid \in DOMAIN ls /\ (t - ls[uid]) <= MIN_INTERVAL
spam_short(ls, uid, t) == uid \in DOMAIN ls /\ (t - ls[uid]) < MIN_INTERVAL - 1

\* on_text: uid in LAST_SEEN and (now - LAST_SEEN[uid]) < 0.6
spam(ls, uid, t) == uid \in DOMAIN ls /\ (t - ls[uid]) < MIN_INTERVAL

\* ------------------------------------------------------------------- chat
\* What one attempt can meet: a reply, a non-2xx status, a transport failure
\* or timeout raised by client.post, a 2xx JSON body without
\* choices[0].message.content, a 2xx body that is not JSON.
Outcomes == {"ok", "http", "transport", "shape", "notjson"}

RawReply == " hi there "

\* Variant of chat in which raise_for_status() is not caught, so that a
\* non-2xx status reaches the retry wrapper like a transport failure.
chatBody_status_raises(o) ==
    CASE o = "ok"        -> [raised |-> FALSE, text |-> strip(RawReply)]
      [] o = "http"      -> [raised |-> TRUE, text |-> ""]
      [] o = "shape"     -> [raised |-> FALSE, text |-> UNEXPECTED]
      [] o = "transport" -> [raised |-> TRUE, text |-> ""]
      [] o = "notjson"   -> [raised |-> TRUE, text |-> ""]

\* One run of the body of chat on an attempt with outcome o: the text it
\* returns, or the exception it lets through to the retry wrapper.
\*   http      : raise_for_status() raises HTTPStatusError, caught: returns
\*   transport : client.post raises, not an HTTPStatusError: propagates
\*   notjson   : r.json() raises outside any try: propagates
\*   shape     : the lookup raises inside try/except Exception: returns
chatBody(o) ==
    CASE o = "ok"        -> [raised |-> FALSE, text |-> strip(RawReply)]
      [] o = "http"      -> [raised |-> FALSE, text |-> HTTP_ERROR]
      [] o = "shape"     -> [raised |-> FALSE, text |-> UNEXPECTED]
      [] o = "transport" -> [raised |-> TRUE, text |-> ""]
      [] o = "notjson"   -> [raised |-> TRUE, text |-> ""]

\* Variant of the stop rule: one attempt fewer.
stop_after_attempt_early(n) == n >= MAX_ATTEMPTS - 1

\* stop_after_attempt(3): no attempt follows attempt number n.
stop_after_attempt(n) == n >= MAX_ATTEMPTS

\* wait_exponential(min=1, max=8) after attempt number n (multiplier 1,
\* base 2), in seconds.
wait_exponential(n) == Max(Max(0, WAIT_MIN), Min(Pow2(n - 1), WAIT_MAX))

\* chat(_hist(uid)) is called: the first attempt posts the list as it is.
Calling(r, list) ==
    [r EXCEPT !.pc = "post", !.messages = list, !.alias = TRUE,
              !.attempt = 1, !.payload = list]

\* --------------------------------------------------------------- handlers
CompletionCommands == {"cmd_btc", "cmd_actu", "cmd_macro", "cmd_perspective"}

\* on_text up to `await reply_text(echo)`.
on_text(t, u, raw) ==
    /\ Fresh(t)
    /\ left' = left - 1
    /\ task' = [task EXCEPT ![t] =
          IF raw = ""
          THEN Finished(Started(t, "on_text", u), "ignored", <<>>)
          ELSE [Started(t, "on_text", u) EXCEPT
                   !.pc = "echo", !.text = strip(raw), !.out = <<"echo">>]]
    /\ UNCHANGED <<CTX, LAST_SEEN, now, nmsg, pushed>>

\* Variant of on_text in which _push(uid, "user", text) stands before the
\* anti-spam gate, so that a rejected message leaves its turn behind.
on_text_gate_push_first(t, n) ==
    LET r == task[t]
        turn == [role |-> "user", content |-> r.text, msg |-> nmsg[r.uid] + 1]
    IN  /\ r.pc = "echo"
        /\ n >= now
        /\ now' = n
        /\ nmsg' = [nmsg EXCEPT ![r.uid] = @ + 1]
        /\ CTX' = push(CTX, r.uid, turn)
        /\ pushed' = [pushed EXCEPT ![r.uid] = Append(@, turn)]
        /\ IF spam(LAST_SEEN, r.uid, n)
           THEN /\ task' = [pushSeen(task, CTX, r.uid, turn) EXCEPT ![t] =
                      Finished(r, "dropped", <<>>)]
                /\ UNCHANGED LAST_SEEN
           ELSE /\ LAST_SEEN' = Put(LAST_SEEN, r.uid, n)
                /\ task' = [pushSeen(task, CTX, r.uid, turn) EXCEPT ![t] =
                      [r EXCEPT !.pc = "typing", !.tag = nmsg[r.uid] + 1,
                                !.allowed = TRUE,
                                !.out = r.out \o <<"typing">>]]
        /\ UNCHANGED left

\* on_text from the echo to `await send_action`: now = time.time() reads n
\* (the clock is read nowhere else, and never runs backwards), the anti-spam
\* gate, then _push(uid, "user", text).
on_text_gate(t, n) ==
    LET r == task[t]
        turn == [role |-> "user", content |-> r.text, msg |-> nmsg[r.uid] + 1]
    IN  /\ r.pc = "echo"
        /\ n >= now
        /\ now' = n
        /\ IF spam(LAST_SEEN, r.uid, n)
           THEN /\ task' = [task EXCEPT ![t] = Finished(r, "dropped", <<>>)]
                /\ UNCHANGED <<CTX, LAST_SEEN, nmsg, pushed>>
           ELSE /\ LAST_SEEN' = Put(LAST_SEEN, r.uid, n)
                /\ nmsg' = [nmsg EXCEPT ![r.uid] = @ + 1]
                /\ CTX' = push(CTX, r.uid, turn)
                /\ task' = [pushSeen(task, CTX, r.uid, turn) EXCEPT ![t] =
                      [r EXCEPT !.pc = "typing", !.tag = nmsg[r.uid] + 1,
                                !.allowed = TRUE,
                                !.out = r.out \o <<"typing">>]]
                /\ pushed' = [pushed EXCEPT ![r.uid] = Append(@, turn)]
        /\ UNCHANGED left

\* on_text from send_action to the first `await client.post` in chat.
on_text_chat(t) ==
    LET r == task[t]
    IN  /\ r.pc = "typing"
        /\ CTX' = hist(CTX, r.uid)
        /\ task' = [task EXCEPT ![t] = Calling(r, hist(CTX, r.uid)[r.uid])]
        /\ UNCHANGED <<LAST_SEEN, now, left, nmsg, pushed>>

\* An attempt raised and the wrapper retries: `await sleep(wait)`.
chat_backoff(t, o) ==
    LET r == task[t]
    IN  /\ r.pc = "post"
        /\ chatBody(o).raised
        /\ ~stop_after_attempt(r.attempt)
        /\ task' = [task EXCEPT ![t] =
              [r EXCEPT !.pc = "sleep", !.outcome = o,
                        !.waits = Append(@, wait_exponential(r.attempt))]]
        /\ UNCHANGED <<CTX, LAST_SEEN, now, left, nmsg, pushed>>

\* The sleep ends: the next attempt posts the list object as it is now.  The
\* clock is read by the gate of on_text alone, so how long the sleep lasted
\* shows nowhere else; `waits` keeps the lengths asked for.
chat_retry(t) ==
    LET r == task[t]
    IN  /\ r.pc = "sleep"
        /\ task' = [task EXCEPT ![t] =
              [r EXCEPT !.pc = "post", !.attempt = r.attempt + 1,
                        !.payload = r.messages]]
        /\ UNCHANGED <<CTX, LAST_SEEN, now, left, nmsg, pushed>>

\* chat returned to on_text: _push(uid, "assistant", reply), reply_text(reply).
on_text_reply(t, o) ==
    LET r == task[t]
        reply == chatBody(o).text
        turn == [role |-> "assistant", content |-> reply, msg |-> r.tag]
    IN  /\ r.pc = "post"
        /\ r.handler = "on_text"
        /\ ~chatBody(o).raised
        /\ CTX' = push(CTX, r.uid, turn)
        /\ task' = [pushSeen(task, CTX, r.uid, turn) EXCEPT ![t] =
              Finished([r EXCEPT !.outcome = o], reply, <<reply>>)]
        /\ pushed' = [pushed EXCEPT ![r.uid] = Append(@, turn)]
        /\ UNCHANGED <<LAST_SEEN, now, left, nmsg>>

\* Variant of on_text whose except clause swallows the exception
\* (`except Exception: pass`).
on_text_except_silent(t, o) ==
    LET r == task[t]
    IN  /\ r.pc = "post"
        /\ r.handler = "on_text"
        /\ chatBody(o).raised
        /\ stop_after_attempt(r.attempt)
        /\ task' = [task EXCEPT ![t] =
              Finished([r EXCEPT !.outcome = o], "raised", <<>>)]
        /\ UNCHANGED <<CTX, LAST_SEEN, now, left, nmsg, pushed>>

\* The last attempt raised: RetryError reaches `except Exception` of on_text.
on_text_except(t, o) ==
    LET r == task[t]
    IN  /\ r.pc = "post"
        /\ r.handler = "on_text"
        /\ chatBody(o).raised
        /\ stop_after_attempt(r.attempt)
        /\ task' = [task EXCEPT ![t] =
              Finished([r EXCEPT !.outcome = o], "raised", <<OnTextFailure>>)]
        /\ UNCHANGED <<CTX, LAST_SEEN, now, left, nmsg, pushed>>

\* cmd_btc, cmd_actu, cmd_macro, _cmd_perspective up to the `await` of the
\* market-data request.  From there on the four run the same code (they
\* differ in the texts they build), so a task records them as "command".
cmd_completion(t, u, h) ==
    /\ Fresh(t)
    /\ h \in CompletionCommands
    /\ left' = left - 1
    /\ task' = [task EXCEPT ![t] =
          [Started(t, "command", u) EXCEPT !.pc = "fetch"]]
    /\ UNCHANGED <<CTX, LAST_SEEN, now, nmsg, pushed>>

\* The market-data request failed: the handler's except replies.
cmd_fetch_failed(t) ==
    LET r == task[t]
    IN  /\ r.pc = "fetch"
        /\ task' = [task EXCEPT ![t] =
              Finished(r, "fetch_failed", <<"echec recuperation">>)]
        /\ UNCHANGED <<CTX, LAST_SEEN, now, left, nmsg, pushed>>

\* The market-data request answered: _push(uid, "user", prompt), then
\* chat(_hist(uid)) up to its first `await client.post`.
cmd_fetched(t) ==
    LET r == task[t]
        turn == [role |-> "user", content |-> "prompt", msg |-> nmsg[r.uid] + 1]
        ctx1 == push(CTX, r.uid, turn)
    IN  /\ r.pc = "fetch"
        /\ nmsg' = [nmsg EXCEPT ![r.uid] = @ + 1]
        /\ CTX' = hist(ctx1, r.uid)
        /\ task' = [pushSeen(task, CTX, r.uid, turn) EXCEPT ![t] =
              Calling([r EXCEPT !.tag = nmsg[r.uid] + 1, !.text = "prompt"],
                      hist(ctx1, r.uid)[r.uid])]
        /\ pushed' = [pushed EXCEPT ![r.uid] = Append(@, turn)]
        /\ UNCHANGED <<LAST_SEEN, now, left>>

\* chat returned to a command handler: reply_text(... + ia).
cmd_reply(t, o) ==
    LET r == task[t]
    IN  /\ r.pc = "post"
        /\ r.handler = "command"
        /\ ~chatBody(o).raised
        /\ task' = [task EXCEPT ![t] =
              Finished([r EXCEPT !.outcome = o], chatBody(o).text,
                       <<chatBody(o).text>>)]
        /\ UNCHANGED <<CTX, LAST_SEEN, now, left, nmsg, pushed>>

\* The last attempt raised: RetryError reaches the handler's except.
cmd_except(t, o) ==
    LET r == task[t]
    IN  /\ r.pc = "post"
        /\ r.handler = "command"
        /\ chatBody(o).raised
        /\ stop_after_attempt(r.attempt)
        /\ task' = [task EXCEPT ![t] =
              Finished([r EXCEPT !.outcome = o], "raised",
                       <<"echec recuperation">>)]
        /\ UNCHANGED <<CTX, LAST_SEEN, now, left, nmsg, pushed>>

\* cmd_start: _hist(uid), then the welcome message.
cmd_start(t, u) ==
    /\ Fresh(t)
    /\ left' = left - 1
    /\ CTX' = hist(CTX, u)
    /\ task' = [task EXCEPT ![t] =
          Finished(Started(t, "cmd_start", u), "ok", <<"welcome">>)]
    /\ UNCHANGED <<LAST_SEEN, now, nmsg, pushed>>

\* Variant of cmd_reset that binds an empty list.
reset_list_empty == <<>>

\* The list cmd_reset binds to CTX[uid].
reset_list == <<SystemTurn>>

\* cmd_reset: CTX[uid] = [system turn], then the confirmation message.
cmd_reset(t, u) ==
    /\ Fresh(t)
    /\ left' = left - 1
    /\ CTX' = Put(CTX, u, reset_list)
    /\ task' = [rebound(task, u) EXCEPT ![t] =
          Finished(Started(t, "cmd_reset", u), "ok", <<ResetDone>>)]
    /\ pushed' = [pushed EXCEPT ![u] = <<>>]
    /\ UNCHANGED <<LAST_SEEN, now, nmsg>>

RawTexts == {"", " hello "}

\* The steps of the tasks TT for the users UU.
Step(TT, UU) ==
    \/ \E t \in TT, u \in UU, raw \in RawTexts : on_text(t, u, raw)
    \/ \E t \in TT, n \in Times : on_text_gate(t, n)
    \/ \E t \in TT : on_text_chat(t)
    \/ \E t \in TT, o \in Outcomes : chat_backoff(t, o)
    \/ \E t \in TT : chat_retry(t)
    \/ \E t \in TT, o \in Outcomes : on_text_reply(t, o)
    \/ \E t \in TT, o \in Outcomes : on_text_except(t, o)
    \/ \E t \in TT, u \in UU, h \in CompletionCommands :
          cmd_completion(t, u, h)
    \/ \E t \in TT : cmd_fetch_failed(t)
    \/ \E t \in TT : cmd_fetched(t)
    \/ \E t \in TT, o \in Outcomes : cmd_reply(t, o)
    \/ \E t \in TT, o \in Outcomes : cmd_except(t, o)
    \/ \E t \in TT, u \in UU : cmd_start(t, u)
    \/ \E t \in TT, u \in UU : cmd_reset(t, u)

\* Two concurrent handler tasks of one user.
Next == Step(Tasks, {1})

Spec == Init /\ [][Next]_vars

\* One handler task at a time, one user: the updates are handled one after
\* the other.
InitSeq ==
    /\ CTX = EmptyMap
    /\ LAST_SEEN = EmptyMap
    /\ now = 0
    /\ task = [t \in Tasks |-> Idle]
    /\ left = MaxSeqUpdates
    /\ nmsg = [u \in Users |-> 0]
    /\ pushed = [u \in Users |-> <<>>]

NextSeq == Step({1}, {1})

SpecSeq == InitSeq /\ [][NextSeq]_vars

\* _push called again and again for one user, from a new list on.
PushRoles == {"user", "assistant"}

push_call(u, role) ==
    LET turn == [role |-> role, content |-> "text", msg |-> Len(pushed[u]) + 1]
    IN  /\ Len(pushed[u]) < 1 + 2 * MAX_TURNS + MaxOver
        /\ CTX' = push(CTX, u, turn)
        /\ task' = pushSeen(task, CTX, u, turn)
        /\ pushed' = [pushed EXCEPT ![u] = Append(@, turn)]
        /\ UNCHANGED <<LAST_SEEN, now, left, nmsg>>

NextPush == \E role \in PushRoles : push_call(1, role)

SpecPush == Init /\ [][NextPush]_vars

\* Two concurrent handler tasks of one user, each of which keeps being
\* scheduled: the event loop runs every ready task, every await of a network
\* call returns or raises within its timeout (httpx.Timeout(60.0,
\* connect=15.0)), and every backoff sleep ends.
InitLive ==
    /\ CTX = EmptyMap
    /\ LAST_SEEN = EmptyMap
    /\ now = 0
    /\ task = [t \in Tasks |-> Idle]
    /\ left = MaxLiveUpdates
    /\ nmsg = [u \in Users |-> 0]
    /\ pushed = [u \in Users |-> <<>>]

\* The next step of the handler running in task t, whatever it meets.
Resume(t) ==
    \/ \E n \in Times : on_text_gate(t, n)
    \/ on_text_chat(t)
    \/ \E o \in Outcomes : chat_backoff(t, o)
    \/ chat_retry(t)
    \/ \E o \in Outcomes : on_text_reply(t, o)
    \/ \E o \in Outcomes : on_text_except(t, o)
    \/ cmd_fetch_failed(t)
    \/ cmd_fetched(t)
    \/ \E o \in Outcomes : cmd_reply(t, o)
    \/ \E o \in Outcomes : cmd_except(t, o)

SpecLive ==
    /\ InitLive
    /\ [][Next]_vars
    /\ \A t \in Tasks : WF_vars(Resume(t))

\* Two users whose updates overlap: task 1 runs the handlers of user 1 and
\* task 2 those of user 2.  By Fresh, a handler of user 2 starts while one of
\* user 1 is in flight; a handler of user 1 starts at any time, also while
\* one of user 2 is in flight.  (Two tasks of the same user are in Spec.)
InitUsers ==
    /\ CTX = EmptyMap
    /\ LAST_SEEN = EmptyMap
    /\ now = 0
    /\ task = [t \in Tasks |-> Idle]
    /\ left = MaxUserUpdates
    /\ nmsg = [u \in Users |-> 0]
    /\ pushed = [u \in Users |-> <<>>]

NextUsers == Step({1}, {1}) \/ Step({2}, {2})

SpecUsers == InitUsers /\ [][NextUsers]_vars

\* ================================================================ claims
InChat(t) == task[t].pc \in {"post", "sleep"}

\* C1: every conversation holds exactly one system turn, at index 0, with
\* the fixed SYSTEM text, and has between 1 and 1 + 2 * MAX_TURNS turns,
\* whatever the interleaving of the handlers.
C1_OneSystemTurnAndBounded ==
    \A u \in DOMAIN CTX :
        /\ Len(CTX[u]) >= 1
        /\ Len(CTX[u]) <= 1 + 2 * MAX_TURNS
        /\ CTX[u][1].role = "system"
        /\ CTX[u][1].content = SYSTEM
        /\ \A i \in 2..Len(CTX[u]) : CTX[u][i].role # "system"

\* A conversation at the bound from which turns have been evicted, while a
\* task of the same user is inside chat.
C1_Witness ==
    \E u \in DOMAIN CTX :
        /\ Len(pushed[u]) > 2 * MAX_TURNS
        /\ Len(CTX[u]) = 1 + 2 * MAX_TURNS
        /\ \E t \in Tasks : InChat(t) /\ task[t].uid = u

\* C2: after N > 1 + 2 * MAX_TURNS calls of _push on a new conversation, the
\* conversation has exactly 1 + 2 * MAX_TURNS turns: the system turn, then
\* the last 2 * MAX_TURNS pushed turns in the order they were pushed.
C2_LastTurnsKept ==
    \A u \in Users :
        Len(pushed[u]) > 1 + 2 * MAX_TURNS =>
            /\ u \in DOMAIN CTX
            /\ Len(CTX[u]) = 1 + 2 * MAX_TURNS
            /\ CTX[u][1] = SystemTurn
            /\ SubSeq(CTX[u], 2, Len(CTX[u])) =
                  SubSeq(pushed[u], Len(pushed[u]) - 2 * MAX_TURNS + 1,
                         Len(pushed[u]))

\* More than 1 + 2 * MAX_TURNS turns have been pushed, the last of them past
\* several evictions.
C2_Witness ==
    /\ Len(pushed[1]) = 1 + 2 * MAX_TURNS + MaxOver
    /\ Len(CTX[1]) = 1 + 2 * MAX_TURNS

\* A turn of a text message: the user turn on_text pushes, or an assistant
\* turn (only on_text pushes those).
TextTurn(turn) ==
    turn.role = "assistant" \/ (turn.role = "user" /\ turn.content = "hello")

\* C3: the turns of the text messages of one user lie in the conversation in
\* the order in which the gate accepted the messages: no turn of a message
\* accepted later stands before a turn of a message accepted earlier (msg
\* numbers the messages of a user in the order of their user turns).
C3_TurnsInAcceptanceOrder ==
    \A u \in DOMAIN CTX :
        \A i, j \in 2..Len(CTX[u]) :
            (i < j /\ TextTurn(CTX[u][i]) /\ TextTurn(CTX[u][j]))
                => CTX[u][i].msg <= CTX[u][j].msg

\* The attempts that end by raising into the retry wrapper.
Raising == {"transport", "notjson"}

\* The task called chat and its handler has ended.
Called(t) == task[t].pc = "done" /\ task[t].attempt >= 1

GateStep(t) == task[t].pc = "echo" /\ task'[t].pc # "echo"

\* C6: the gate of on_text, at the time now' it reads, rejects the message
\* of user u exactly when LAST_SEEN[u] exists and now' - LAST_SEEN[u] < 6,
\* and then leaves LAST_SEEN unchanged; otherwise it accepts and sets
\* LAST_SEEN[u] to now'.
C6_GateDecision ==
    [][\A t \in Tasks :
          GateStep(t) =>
              LET u == task[t].uid
              IN  IF u \in DOMAIN LAST_SEEN /\ now' - LAST_SEEN[u] < 6
                  THEN /\ task'[t].pc = "done"
                       /\ task'[t].result = "dropped"
                       /\ LAST_SEEN' = LAST_SEEN
                  ELSE /\ task'[t].pc = "typing"
                       /\ u \in DOMAIN LAST_SEEN'
                       /\ LAST_SEEN'[u] = now'
                       /\ \A v \in DOMAIN LAST_SEEN :
                             v # u => LAST_SEEN'[v] = LAST_SEEN[v]]_vars

\* Calls at t = 0 and t = 0.5: the first accepted, the second rejected, and
\* the recorded time is still that of the accepted one.
C6_Witness ==
    \E t \in Tasks :
        /\ task[t].pc = "done"
        /\ task[t].result = "dropped"
        /\ task[t].uid \in DOMAIN LAST_SEEN
        /\ LAST_SEEN[task[t].uid] = 0
        /\ now = 5

\* C7: the check and the recording of the gate are one step, so two tasks
\* never pass on the same old LAST_SEEN value: whenever the recorded time of
\* a user changes, it moves forward by at least the interval.
C7_AcceptedTimesApart ==
    [][\A u \in DOMAIN LAST_SEEN :
          LAST_SEEN'[u] # LAST_SEEN[u]
              => LAST_SEEN'[u] - LAST_SEEN[u] >= MIN_INTERVAL]_vars

\* Two text messages of one user have passed the gate and both tasks are in
\* flight.
C7_Witness ==
    \E t1, t2 \in Tasks :
        /\ t1 # t2
        /\ task[t1].uid = task[t2].uid
        /\ task[t1].allowed /\ task[t1].pc \in {"typing", "post", "sleep"}
        /\ task[t2].allowed /\ task[t2].pc \in {"typing", "post", "sleep"}
        /\ LAST_SEEN[task[t1].uid] >= MIN_INTERVAL

\* C8: every call of chat is made by a task whose message the gate has
\* accepted.
C8_ChatOnlyAfterGate ==
    \A t \in Tasks : InChat(t) => task[t].allowed

\* The step in which the dispatcher starts cmd_reset for user u.
ResetStep(u) ==
    /\ left' = left - 1
    /\ \E t \in Tasks :
          /\ Fresh(t)
          /\ task'[t].handler = "cmd_reset"
          /\ task'[t].uid = u

\* C9: cmd_reset for user u leaves CTX[u] holding the system turn alone,
\* whatever CTX[u] was (absent, the system turn alone, part filled, at the
\* bound), and touches no other conversation; on a conversation that a reset
\* has just made, a second reset changes nothing.
C9_ResetYieldsSystemTurn ==
    [][\A u \in Users :
          ResetStep(u) =>
              /\ DOMAIN CTX' = (DOMAIN CTX) \cup {u}
              /\ CTX'[u] = <<SystemTurn>>
              /\ \A v \in DOMAIN CTX : v # u => CTX'[v] = CTX[v]
              /\ (u \in DOMAIN CTX /\ CTX[u] = <<SystemTurn>>) => CTX' = CTX]_vars

\* cmd_reset has run on a conversation that was at the bound: a task inside
\* chat still holds the replaced list.
C9_Witness ==
    \E t, s \in Tasks :
        /\ task[t].pc = "done"
        /\ task[t].handler = "cmd_reset"
        /\ CTX[task[t].uid] = <<SystemTurn>>
        /\ InChat(s)
        /\ task[s].uid = task[t].uid
        /\ ~task[s].alias
        /\ Len(task[s].messages) = 1 + 2 * MAX_TURNS

\* C10: a 2xx response without the reply at choices[0].message.content ends
\* the invocation with the fixed unexpected-response text: it is not
\* retried and nothing is raised.
C10_MalformedNotRetried ==
    \A t \in Tasks :
        /\ task[t].pc = "sleep" => task[t].outcome \notin {"shape", "notjson"}
        /\ (Called(t) /\ task[t].outcome \in {"shape", "notjson"})
              => task[t].result = UNEXPECTED

\* The backoff waits a task has asked for so far are non-decreasing and each
\* lies between WAIT_MIN and WAIT_MAX.
WaitsInOrder(w) ==
    /\ \A i \in 1..Len(w) : w[i] >= WAIT_MIN /\ w[i] <= WAIT_MAX
    /\ \A i \in 1..(Len(w) - 1) : w[i] <= w[i + 1]

\* C11: retry in chat is bounded and stops at the first response.  A backoff
\* (and so a further Sending attempt) follows only an attempt that ended in a
\* transport failure, and only while fewer than 3 attempts were made; at most
\* 2 backoff waits occur, non-decreasing and each between 1 and 8; an
\* invocation whose last attempt got the reply returns the extracted text,
\* and an invocation never makes more than 3 attempts.
C11_RetryOnlyAfterTransportFailure ==
    \A t \in Tasks :
        /\ task[t].pc = "sleep" =>
              /\ task[t].outcome = "transport"
              /\ task[t].attempt < MAX_ATTEMPTS
        /\ Len(task[t].waits) <= MAX_ATTEMPTS - 1
        /\ WaitsInOrder(task[t].waits)
        /\ task[t].attempt <= MAX_ATTEMPTS
        /\ (Called(t) /\ task[t].outcome = "ok") => task[t].result = "hi there"

\* The turns of the end-to-end scenario.
HelloTurn == [role |-> "user", content |-> "hello", msg |-> 1]
HiThereTurn == [role |-> "assistant", content |-> "hi there", msg |-> 1]

\* C12: end to end, for a user without prior turns and with no other task
\* running: on_text with the text 'hello' appends the user turn 'hello',
\* calls chat with exactly [system, user:'hello'] (on every attempt), and
\* when chat returns 'hi there' the conversation is [system, user:'hello',
\* assistant:'hi there'], of length 3, and the reply sent is 'hi there'.
C12_EndToEnd ==
    \A t \in Tasks :
        (task[t].handler = "on_text" /\ task[t].allowed
            /\ nmsg[task[t].uid] = 1) =>
            LET u == task[t].uid
            IN  /\ task[t].pc = "typing" => CTX[u] = <<SystemTurn, HelloTurn>>
                /\ task[t].pc \in {"post", "sleep"} =>
                      /\ task[t].payload = <<SystemTurn, HelloTurn>>
                      /\ CTX[u] = <<SystemTurn, HelloTurn>>
                /\ (task[t].pc = "done" /\ task[t].outcome = "ok") =>
                      /\ task[t].result = "hi there"
                      /\ CTX[u] = <<SystemTurn, HelloTurn, HiThereTurn>>
                      /\ Len(CTX[u]) = 3
                      /\ task[t].out = <<"echo", "typing", "hi there">>

\* The first message of a user has been answered with 'hi there'.
C12_Witness ==
    \E t \in Tasks :
        /\ task[t].handler = "on_text"
        /\ task[t].pc = "done"
        /\ task[t].result = "hi there"
        /\ nmsg[task[t].uid] = 1
        /\ CTX[task[t].uid] = <<SystemTurn, HelloTurn, HiThereTurn>>

\* The turns pushed for a user since the list was new alternate strictly:
\* user, assistant, user, assistant, ...
Alternating(p) ==
    \A i \in 1..Len(p) :
        p[i].role = IF i % 2 = 1 THEN "user" ELSE "assistant"

\* C13 as claimed: eviction drops the oldest user/assistant pair together.
\* When the turns of a user are pushed in strict alternation, the turn at
\* index 1 is a user turn after every push, in the stored conversation and
\* in the turn sequence handed to chat.
C13_IndexOneIsUserTurn ==
    \A u \in DOMAIN CTX :
        Alternating(pushed[u]) =>
            /\ Len(CTX[u]) >= 2 => CTX[u][2].role = "user"
            /\ \A t \in Tasks :
                  (InChat(t) /\ task[t].uid = u /\ Len(task[t].payload) >= 2)
                      => task[t].payload[2].role = "user"

\* C13 amended: eviction drops one turn per push, the oldest one after the
\* system turn.  When the turns of a user are pushed in strict alternation,
\* the turn at index 1 is a user turn while at most 2 * MAX_TURNS turns have
\* been pushed and after every push of an assistant turn; after every push
\* of a user turn beyond that, it is an assistant turn whose user turn is no
\* longer in the conversation, and that is the sequence on_text hands to
\* chat.
C13_OldestTurnEvictedAlone ==
    \A u \in DOMAIN CTX :
        (Alternating(pushed[u]) /\ Len(pushed[u]) >= 1) =>
            LET n == Len(pushed[u])
                orphan == n > 2 * MAX_TURNS /\ n % 2 = 1
                h == CTX[u]
            IN  /\ h[2].role = IF orphan THEN "assistant" ELSE "user"
                /\ orphan =>
                      \A i \in 2..Len(h) :
                          h[i].role = "user" => h[i].msg # h[2].msg
                /\ \A t \in Tasks :
                      (InChat(t) /\ task[t].uid = u) => task[t].payload = h

\* on_text has pushed the user turn that first exceeds the bound and is
\* inside chat with a sequence whose first turn after the system turn is an
\* assistant turn.
C13_Witness ==
    \E t \in Tasks :
        /\ InChat(t)
        /\ task[t].handler = "on_text"
        /\ Alternating(pushed[task[t].uid])
        /\ Len(pushed[task[t].uid]) = 2 * MAX_TURNS + 1
        /\ task[t].payload[2].role = "assistant"
        /\ CTX[task[t].uid][2].role = "assistant"

\* The step in which the gate of on_text rejects the message of task t.
Rejected(t) == GateStep(t) /\ task'[t].result = "dropped"

\* C14 as claimed: a text message rejected by the rate limiter is silently
\* dropped: handling it sends no reply to the user, appends no turn and
\* starts no completion call.
C14_RejectedSilentlyDropped ==
    [][\A t \in Tasks :
          Rejected(t) =>
              /\ task'[t].pc = "done"
              /\ task'[t].out = <<>>
              /\ task'[t].attempt = 0
              /\ CTX' = CTX]_vars

\* C14 amended: a rejected text message gets the immediate echo, which
\* on_text sends before it reads the gate, and nothing else: no typing
\* action, no reply or error message, no turn appended to any conversation,
\* no completion call.
C14_RejectedGetsEchoOnly ==
    [][\A t \in Tasks :
          Rejected(t) =>
              /\ task'[t].pc = "done"
              /\ task'[t].out = <<"echo">>
              /\ task'[t].attempt = 0
              /\ CTX' = CTX
              /\ pushed' = pushed]_vars

\* A message was rejected after an earlier one of the same user had been
\* accepted and answered: the echo is all the rejected one produced.
C14_Witness ==
    \E t \in Tasks :
        /\ task[t].pc = "done"
        /\ task[t].result = "dropped"
        /\ task[t].out = <<"echo">>
        /\ Len(pushed[task[t].uid]) >= 2

\* The texts on_text sends as the result of an accepted message.
ResultTexts == {"hi there", HTTP_ERROR, UNEXPECTED, OnTextFailure}

\* C15: no failure is silent.  For every text message the gate accepted,
\* whatever the completion call meets, the on_text task eventually sends the
\* user a result message (the reply or an error text) as its last message
\* and ends, given that the task keeps being scheduled.
C15_NoSilentFailure ==
    \A t \in Tasks :
        (task[t].handler = "on_text" /\ task[t].pc = "typing")
            ~> (/\ task[t].handler = "on_text"
                /\ task[t].allowed
                /\ task[t].pc = "done"
                /\ Len(task[t].out) >= 3
                /\ task[t].out[Len(task[t].out)] \in ResultTexts)

\* An accepted message whose completion call failed three times ended with
\* the failure message.
C15_Witness ==
    \E t \in Tasks :
        /\ task[t].handler = "on_text"
        /\ task[t].allowed
        /\ task[t].pc = "done"
        /\ task[t].attempt = MAX_ATTEMPTS
        /\ task[t].outcome \in Raising
        /\ task[t].out = <<"echo", "typing", OnTextFailure>>

\* What a dictionary holds for key u: <<value>>, or <<>> when u is absent.
Entry(f, u) == IF u \in DOMAIN f THEN <<f[u]>> ELSE <<>>

\* The handler in task t takes this step: it is started by the dispatcher,
\* or it moves from one await to the next.
Acts(t) == IF left' # left THEN Fresh(t) ELSE task'[t].pc # task[t].pc

InFlight(t) == task[t].pc \in {"echo", "typing", "fetch", "post", "sleep"}

\* C16: per-user state is independent.  Every step of a handler task running
\* for a user A (its failures and retries included) leaves CTX[B] and
\* LAST_SEEN[B] unchanged for every other user B, and leaves the tasks of B
\* as they are; and while a completion call of A is pending or backing off,
\* a task of B that is in flight can take its next step.
C16_UsersIndependent ==
    [][/\ \A t \in Tasks :
             Acts(t) =>
                 \A B \in Users \ {task'[t].uid} :
                     /\ Entry(CTX', B) = Entry(CTX, B)
                     /\ Entry(LAST_SEEN', B) = Entry(LAST_SEEN, B)
                     /\ \A s \in Tasks : task[s].uid = B => task'[s] = task[s]
       /\ \A t, s \in Tasks :
             (InChat(t) /\ InFlight(s) /\ task[s].uid # task[t].uid)
                 => ENABLED Resume(s)]_vars

\* The completion call of user 1 is backing off after a failure while a task
\* of user 2 has passed the gate and is in its own completion call.
C16_Witness ==
    \E t, s \in Tasks :
        /\ task[t].uid = 1 /\ task[s].uid = 2
        /\ task[t].pc = "sleep"
        /\ task[s].pc = "post" /\ task[s].allowed
        /\ 1 \in DOMAIN LAST_SEEN /\ 2 \in DOMAIN LAST_SEEN
        /\ Len(CTX[1]) >= 2 /\ Len(CTX[2]) >= 2

\* C17: every handler that appends a user turn and then gets a reply text
\* from chat (on_text and the completion commands) appends that reply to the
\* conversation as an assistant turn: with no concurrent task, once the
\* handler has ended the conversation ends with the user turn it pushed
\* followed by the assistant turn holding the text chat returned.
C17_ReplyAppendedByEveryHandler ==
    \A t \in Tasks :
        (Called(t) /\ task[t].handler \in {"on_text", "command"}
            /\ task[t].result # "raised") =>
            LET h == CTX[task[t].uid]
            IN  /\ Len(h) >= 3
                /\ h[Len(h) - 1].role = "user"
                /\ h[Len(h)].role = "assistant"
                /\ h[Len(h)].content = task[t].result

\* C18: a reset erases the memory for good.  pushed[u] holds the turns given
\* to _push since the list of u was new (cmd_reset empties it), so every
\* assistant turn of CTX[u] answers a user turn pushed since then: no turn
\* of a message accepted before the reset is in the conversation, and
\* [system, assistant:reply] after a reset is unreachable.
C18_ResetErasesForGood ==
    \A u \in DOMAIN CTX :
        \A i \in 2..Len(CTX[u]) :
            CTX[u][i].role = "assistant" =>
                \E j \in 1..Len(pushed[u]) :
                    /\ pushed[u][j].role = "user"
                    /\ pushed[u][j].msg = CTX[u][i].msg

\* The fixed error texts chat returns in place of a reply.
ErrorTexts == {HTTP_ERROR, UNEXPECTED}

\* C19: the conversation only stores real replies.  No assistant turn of a
\* conversation holds one of the fixed error texts of chat, and no
\* completion request carries one.
C19_ErrorTextsNeverStored ==
    /\ \A u \in DOMAIN CTX :
          \A i \in 1..Len(CTX[u]) :
              CTX[u][i].role = "assistant" => CTX[u][i].content \notin ErrorTexts
    /\ \A t \in Tasks :
          \A i \in 1..Len(task[t].payload) :
              task[t].payload[i].content \notin ErrorTexts

\* C20: every Sending attempt of one chat invocation carries the same turn
\* sequence, the conversation as it was when chat was called: the attempt
\* that follows a backoff posts what the attempt before it posted, whatever
\* other tasks appended or reset in the meantime.
C20_RetrySendsSameTurns ==
    [][\A t \in Tasks :
          (task[t].pc = "sleep" /\ task'[t].pc = "post")
              => task'[t].payload = task[t].payload]_vars

====
